---- MODULE Spec2Model ----
(***************************************************************************)
(* locust-teste/locustfile.py: the user class Pokemon and its one task,    *)
(* list, run by a load generator that picks a user, picks one of the       *)
(* class's tasks and calls it.  The wire records, in order, every call the *)
(* tasks make on the HTTP client.                                          *)
(***************************************************************************)
EXTENDS Integers, Sequences, FiniteSets, TLC

\* Number of simulated Pokemon users the load generator spawns.
NumUsers == 2

\* Number of task invocations the load generator grants each user.
MaxRuns == 2

Users == 1..NumUsers

\* The ways a GET can end, as the client reports them to the caller.
Outcomes == {"ok", "non2xx", "timeout", "connection_error"}

\* Python's None, for an argument the caller does not pass.
None == "None"

VARIABLES
    cls,          \* namespace of the class Pokemon (shared by all users)
    inst,         \* inst[u]: attributes set on the user object u itself
    wire,         \* sequence of [user, req]: client calls in the order made
    invocations,  \* invocations[u]: times the scheduler has called a task of u
    lastTask,     \* lastTask[u]: name of the task last selected for u
    lastOutcome,  \* lastOutcome[u]: how the last GET of u ended
    stopped       \* stopped[u]: a task of u has ended the user's run

vars == <<cls, inst, wire, invocations, lastTask, lastOutcome, stopped>>

\* An object with no attribute of its own.
NoAttrs == [n \in {} |-> None]

\* The body of `class Pokemon(HttpUser)`: the names it binds besides methods.
PokemonClass == [BASE_URL |-> "http://node-api:4444"]

\* A second method of the class decorated with @task.
tasks_with_other == {"list", "other"}

\* The methods of Pokemon decorated with @task.
tasks == {"list"}

\* self.<name>: the attribute of the object when it has one, else the class's.
getattr(c, i, name) == IF name \in DOMAIN i THEN i[name] ELSE c[name]

\* The path written without its leading slash.
fstring_no_slash(value) == value \o "pokemon"

\* f"{value}/pokemon"
fstring(value) == value \o "/pokemon"

\* The call passing credentials and a header besides the URL.
client_get_with_auth(url) ==
    [method |-> "GET", url |-> url, data |-> None,
     headers |-> "Authorization", auth |-> "user:password"]

\* self.client.get(url): the call names the method and passes the URL alone.
client_get(url) ==
    [method |-> "GET", url |-> url, data |-> None, headers |-> None, auth |-> None]

\* What one call of a task does: the client calls it makes, the class and
\* object namespaces it leaves, and whether it ends the user's run.
Effect(reqs, c, i, stop) == [requests |-> reqs, cls |-> c, inst |-> i, stop |-> stop]

\* The body making the GET twice.
list_twice(c, i, resp) ==
    LET g == client_get(fstring(getattr(c, i, "BASE_URL")))
    IN  Effect(<<g, g>>, c, i, FALSE)

\* The body repeating the GET when the first one did not succeed.
list_retry(c, i, resp) ==
    LET g == client_get(fstring(getattr(c, i, "BASE_URL")))
    IN  Effect(IF resp = "ok" THEN <<g>> ELSE <<g, g>>, c, i, FALSE)

\* The body taking a class-wide lock: the first user to run sets it, and a
\* user that finds it set by another gives up.
list_lock(c, i, resp) ==
    LET g == client_get(fstring(getattr(c, i, "BASE_URL")))
    IN  IF "lock" \in DOMAIN c /\ "owner" \notin DOMAIN i
        THEN Effect(<<g>>, c, i, TRUE)
        ELSE Effect(<<g>>,
                    [n \in DOMAIN c \cup {"lock"} |-> IF n = "lock" THEN "held" ELSE c[n]],
                    [n \in DOMAIN i \cup {"owner"} |-> IF n = "owner" THEN "yes" ELSE i[n]],
                    FALSE)

\* The body storing the URL it built back into self.BASE_URL.
list_rebind(c, i, resp) ==
    LET url == fstring(getattr(c, i, "BASE_URL"))
    IN  Effect(<<client_get(url)>>, c,
               [n \in DOMAIN i \cup {"BASE_URL"} |-> IF n = "BASE_URL" THEN url ELSE i[n]],
               FALSE)

\* The body ending the user's run after a GET that did not succeed.
list_stop_on_failure(c, i, resp) ==
    Effect(<<client_get(fstring(getattr(c, i, "BASE_URL")))>>, c, i, resp # "ok")

\* def list(self): with c, i the class and object namespaces on entry and
\* resp the outcome of the GET, which the body discards.
list(c, i, resp) ==
    Effect(<<client_get(fstring(getattr(c, i, "BASE_URL")))>>, c, i, FALSE)

\* Calling the task `name` of the class.
call(name, c, i, resp) ==
    IF name = "list" THEN list(c, i, resp) ELSE Effect(<<>>, c, i, FALSE)

\* Tag each request with the user that issued it.
Tagged(u, reqs) == [k \in 1..Len(reqs) |-> [user |-> u, req |-> reqs[k]]]

Init ==
    /\ cls = PokemonClass
    /\ inst = [u \in Users |-> NoAttrs]
    /\ wire = <<>>
    /\ invocations = [u \in Users |-> 0]
    /\ lastTask = [u \in Users |-> None]
    /\ lastOutcome = [u \in Users |-> None]
    /\ stopped = [u \in Users |-> FALSE]

\* The scheduler runs task t of user u; the GET ends with outcome resp.
RunTask(u, t, resp) ==
    /\ ~stopped[u]
    /\ invocations[u] < MaxRuns
    /\ LET e == call(t, cls, inst[u], resp) IN
        /\ cls' = e.cls
        /\ inst' = [inst EXCEPT ![u] = e.inst]
        /\ wire' = wire \o Tagged(u, e.requests)
        /\ stopped' = [stopped EXCEPT ![u] = e.stop]
    /\ invocations' = [invocations EXCEPT ![u] = @ + 1]
    /\ lastTask' = [lastTask EXCEPT ![u] = t]
    /\ lastOutcome' = [lastOutcome EXCEPT ![u] = resp]

\* One scheduling step of user u.
Schedule(u) == \E t \in tasks : \E resp \in Outcomes : RunTask(u, t, resp)

Next == \E u \in Users : Schedule(u)

Spec == Init /\ [][Next]_vars

\* Number of client calls on the wire made by user u.
ReqCount(u) == Cardinality({k \in 1..Len(wire) : wire[k].user = u})

\* C1: after any sequence of invocations of list by a user, the number of
\* requests that user has issued equals the number of invocations, and every
\* request on the wire uses the method GET.
C1_OneGetPerInvocation ==
    /\ \A u \in Users : ReqCount(u) = invocations[u]
    /\ \A k \in 1..Len(wire) : wire[k].req.method = "GET"

\* A user has been invoked twice and has two GETs on the wire.
C1_Witness ==
    \E u \in Users :
        /\ invocations[u] >= 2
        /\ ReqCount(u) >= 2
        /\ \E k \in 1..Len(wire) : wire[k].user = u /\ wire[k].req.method = "GET"

\* C2: the URL of every request, by any user and at any point of the run, is
\* BASE_URL followed by "/pokemon", which is "http://node-api:4444/pokemon".
C2_UrlIsBasePlusPokemon ==
    \A k \in 1..Len(wire) :
        /\ wire[k].req.url = cls.BASE_URL \o "/pokemon"
        /\ wire[k].req.url = "http://node-api:4444/pokemon"

\* Every user has requested the URL, and at least three requests were made.
C2_Witness ==
    /\ Len(wire) >= 3
    /\ \A u \in Users : \E k \in 1..Len(wire) :
           wire[k].user = u /\ wire[k].req.url = "http://node-api:4444/pokemon"

\* C3: every request is made with the URL alone: no body, no headers and no
\* authentication are passed to the client.
C3_NothingButUrl ==
    \A k \in 1..Len(wire) :
        /\ wire[k].req.data = None
        /\ wire[k].req.headers = None
        /\ wire[k].req.auth = None

\* Every user has made a request, and one of them carries no body, headers
\* or authentication.
C3_Witness ==
    /\ \A u \in Users : ReqCount(u) >= 1
    /\ \E k \in 1..Len(wire) :
           wire[k].req.data = None /\ wire[k].req.headers = None /\ wire[k].req.auth = None

\* C4: whatever the outcome of the GET, an invocation puts exactly one
\* request on the wire (no retry, no further request), and that request is
\* the same as every request the user made before, whatever their outcomes;
\* the invocation ends neither the user's run nor changes its attributes.
C4_NoFailureHandling ==
    [][\A u \in Users :
          invocations'[u] # invocations[u] =>
              /\ Len(wire') = Len(wire) + 1
              /\ wire'[Len(wire')].user = u
              /\ \A k \in 1..Len(wire) :
                     wire[k].user = u => wire[k].req = wire'[Len(wire')].req
              /\ inst'[u] = inst[u]
              /\ ~stopped'[u]]_vars

\* A user's GET has timed out and another's has been answered with an
\* error status; each has one request on the wire and can be invoked again.
C4_Witness ==
    \E u, v \in Users :
        /\ lastOutcome[u] = "timeout" /\ lastOutcome[v] = "non2xx"
        /\ invocations[u] = 1 /\ ReqCount(u) = 1
        /\ invocations[v] = 1 /\ ReqCount(v) = 1
        /\ ENABLED RunTask(u, "list", "ok")
        /\ ENABLED RunTask(v, "list", "connection_error")

\* C5: users are not coordinated: in every state, whatever the other users
\* have done, a user the scheduler still grants an invocation can be invoked
\* with any outcome, and each user's request count is its own invocation
\* count.
C5_NoCoordination ==
    \A u \in Users :
        /\ invocations[u] < MaxRuns =>
               \A resp \in Outcomes : ENABLED RunTask(u, "list", resp)
        /\ ReqCount(u) = invocations[u]
        /\ \A k \in 1..Len(wire) : wire[k].user \in Users

\* Requests of two users interleaved: the second user first, then the first,
\* then the second again.
C5_Witness ==
    /\ Len(wire) >= 3
    /\ wire[1].user = 2
    /\ wire[2].user = 1
    /\ wire[3].user = 2
    /\ invocations[1] < MaxRuns

\* C6: every scheduling step of every user selects the task list and results
\* in one GET to "/pokemon" by that user, and in nothing else.
C6_OnlyTaskIsList ==
    [][\E u \in Users :
          /\ lastTask'[u] = "list"
          /\ invocations' = [invocations EXCEPT ![u] = @ + 1]
          /\ wire' = Append(wire, [user |-> u,
                                   req |-> [method |-> "GET",
                                            url |-> "http://node-api:4444/pokemon",
                                            data |-> None, headers |-> None,
                                            auth |-> None]])
          /\ cls' = cls /\ inst' = inst /\ stopped' = stopped]_vars

\* Every user has been scheduled, and the task selected last was list.
C6_Witness ==
    \A u \in Users : invocations[u] >= 1 /\ lastTask[u] = "list"

\* C7: BASE_URL is "http://node-api:4444" in every reachable state, the class
\* holds no other attribute, and no attribute is ever written on a user.
C7_ScriptStateUnchanged ==
    /\ DOMAIN cls = {"BASE_URL"}
    /\ cls.BASE_URL = "http://node-api:4444"
    /\ \A u \in Users : DOMAIN inst[u] = {}

\* Every user has run list as often as the scheduler allows.
C7_Witness ==
    /\ \A u \in Users : invocations[u] = MaxRuns /\ lastTask[u] = "list"
    /\ cls.BASE_URL = "http://node-api:4444"

\* C8: the script sets no wait time and no stop condition: a user can be
\* scheduled exactly when the scheduler still grants it an invocation, also
\* right after an invocation, whatever its outcome.
C8_NoPauseNoLimit ==
    \A u \in Users :
        /\ "wait_time" \notin (DOMAIN cls \cup DOMAIN inst[u])
        /\ ~stopped[u]
        /\ (ENABLED Schedule(u)) <=> (invocations[u] < MaxRuns)

\* A user whose GET just failed can be scheduled again at once, while
\* another has used up what the scheduler grants.
C8_Witness ==
    \E u, v \in Users :
        /\ invocations[u] = 1
        /\ lastOutcome[u] = "connection_error"
        /\ ENABLED Schedule(u)
        /\ invocations[v] = MaxRuns

====
